---- MODULE Spec2Model ----
(***************************************************************************)
(* Model of the AI news aggregator: Runner.run() drives                    *)
(* AnthropicScraper.fetch_articles and, per configured handle,             *)
(* YouTubeScraper.get_channel_id / get_latest_videos / get_transcript,     *)
(* and assembles the report dict.                                          *)
(*                                                                         *)
(* Instants are records [s, u]: whole seconds since 2024-01-01T00:00:00Z   *)
(* and microseconds.  Entries leave the scrapers through                   *)
(* model_dump(mode="json"), so every published_at of a result is the ISO   *)
(* text of the instant (a sequence of characters) and every url is the     *)
(* normalised text of the link; the sorts of the code compare those texts. *)
(* Pass-through text fields (title, description, guid, category) are not   *)
(* modelled.                                                               *)
(***************************************************************************)
EXTENDS Integers, Sequences, FiniteSets, TLC

\* ------------------------------------------------------------------------
\* Instants (datetime, timedelta)
\* ------------------------------------------------------------------------

SecPerMin == 60
SecPerHour == 3600
SecPerDay == 86400
MicroPerSec == 1000000

Dt(s, u) == [s |-> s, u |-> u]

\* datetime(*ts[:6], tzinfo=timezone.utc): a parsed feed time has no microseconds
FromStructTime(s) == Dt(s, 0)

DtLess(a, b) == a.s < b.s \/ (a.s = b.s /\ a.u < b.u)

DtLeq(a, b) == ~DtLess(b, a)

\* now - timedelta(hours=h)
MinusHours(t, h) == Dt(t.s - h * SecPerHour, t.u)

\* .replace(hour=0, minute=0, second=0, microsecond=0)
Midnight(t) == Dt((t.s \div SecPerDay) * SecPerDay, 0)

\* ------------------------------------------------------------------------
\* Text: sequences of one-character strings, compared by code point
\* ------------------------------------------------------------------------

Digits == <<"0", "1", "2", "3", "4", "5", "6", "7", "8", "9">>

DigitChar(d) == Digits[d + 1]

\* code points of the characters an ISO instant is written with
CharCode(c) ==
  CASE c = "-" -> 45
    [] c = "." -> 46
    [] c = "0" -> 48 [] c = "1" -> 49 [] c = "2" -> 50 [] c = "3" -> 51
    [] c = "4" -> 52 [] c = "5" -> 53 [] c = "6" -> 54 [] c = "7" -> 55
    [] c = "8" -> 56 [] c = "9" -> 57
    [] c = ":" -> 58
    [] c = "T" -> 84
    [] c = "Z" -> 90

\* Python str <: lexicographic by code point, a proper prefix is smaller
RECURSIVE StrLess(_, _)
StrLess(a, b) ==
  IF b = <<>> THEN FALSE
  ELSE IF a = <<>> THEN TRUE
  ELSE IF a[1] = b[1] THEN StrLess(Tail(a), Tail(b))
  ELSE CharCode(a[1]) < CharCode(b[1])

TwoDigits(n) == <<DigitChar((n \div 10) % 10), DigitChar(n % 10)>>

SixDigits(n) ==
  <<DigitChar((n \div 100000) % 10), DigitChar((n \div 10000) % 10),
    DigitChar((n \div 1000) % 10), DigitChar((n \div 100) % 10),
    DigitChar((n \div 10) % 10), DigitChar(n % 10)>>

\* The model's instants all lie in January 2024 (day-of-month = day + 1).
\* pydantic's JSON form of an aware UTC datetime:
\* YYYY-MM-DDTHH:MM:SS[.ffffff]Z, the fraction only when microsecond # 0
IsoFormat(t) ==
  LET day == t.s \div SecPerDay
      hh == (t.s % SecPerDay) \div SecPerHour
      mm == (t.s % SecPerHour) \div SecPerMin
      ss == t.s % SecPerMin
  IN <<"2", "0", "2", "4", "-", "0", "1", "-">> \o TwoDigits(day + 1)
       \o <<"T">> \o TwoDigits(hh) \o <<":">> \o TwoDigits(mm)
       \o <<":">> \o TwoDigits(ss)
       \o (IF t.u = 0 THEN <<>> ELSE <<".">> \o SixDigits(t.u))
       \o <<"Z">>

DigitVal(c) == CharCode(c) - 48

RECURSIVE DigitsVal(_)
DigitsVal(ds) ==
  IF ds = <<>> THEN 0
  ELSE DigitsVal(SubSeq(ds, 1, Len(ds) - 1)) * 10 + DigitVal(ds[Len(ds)])

\* the instant an ISO text denotes (what a reader of the report gets back)
ParseIso(str) ==
  Dt((DigitsVal(SubSeq(str, 9, 10)) - 1) * SecPerDay
       + DigitsVal(SubSeq(str, 12, 13)) * SecPerHour
       + DigitsVal(SubSeq(str, 15, 16)) * SecPerMin
       + DigitsVal(SubSeq(str, 18, 19)),
     IF str[20] = "." THEN DigitsVal(SubSeq(str, 21, 26)) ELSE 0)

\* list.sort(key=lambda r: r["published_at"], reverse=True): stable, so
\* entries with equal keys keep their order; keys are the ISO texts.
RECURSIVE InsertDesc(_, _)
InsertDesc(sorted, x) ==
  IF sorted = <<>> THEN <<x>>
  ELSE IF StrLess(sorted[1].published_at, x.published_at)
       THEN <<x>> \o sorted
       ELSE <<sorted[1]>> \o InsertDesc(Tail(sorted), x)

RECURSIVE SortByPublishedDesc(_)
SortByPublishedDesc(list) ==
  IF list = <<>> THEN <<>>
  ELSE InsertDesc(SortByPublishedDesc(SubSeq(list, 1, Len(list) - 1)),
                  list[Len(list)])

\* ------------------------------------------------------------------------
\* Optional values: <<>> is None, <<v>> is the value v
\* ------------------------------------------------------------------------

None == <<>>

Some(v) == <<v>>

\* ------------------------------------------------------------------------
\* AnthropicScraper (src/scrapers/anthropic_scrapper.py)
\* ------------------------------------------------------------------------

\* A raw link is [host, path]; the empty string is the link with no host.
EmptyLink == [host |-> "", path |-> ""]

\* AnyHttpUrl accepts a link only if it has a host
ValidHttpUrl(link) == link.host # ""

\* lower-casing of a host name (the hosts of the model are lower-case)
LowerHost(h) == IF h = "EXAMPLE.com" THEN "example.com" ELSE h

\* AnyHttpUrl as dumped by model_dump(mode="json"): host lower-cased,
\* an empty path written as "/"
NormalizeUrl(link) ==
  [host |-> LowerHost(link.host),
   path |-> IF link.path = "" THEN "/" ELSE link.path]

\* get_article_content: the converter's text, "" when convert() raises
GetArticleContent(url, failing) ==
  IF url \in failing \/ ~ValidHttpUrl(url) THEN "" ELSE "markdown"

RECURSIVE Flatten(_)
Flatten(feeds) ==
  IF feeds = <<>> THEN <<>> ELSE feeds[1] \o Flatten(Tail(feeds))

\* mutant: timedelta(days=self.hours) in place of timedelta(hours=...)
AnthropicCutoffDays(now, hours) == Midnight(MinusHours(now, hours * 24))

\* the cutoff of fetch_articles: rounded down to midnight
AnthropicCutoff(now, hours) == Midnight(MinusHours(now, hours))

\* entry.published_parsed, or now when the entry has none
AnthropicPublished(entry, now) ==
  IF entry.published_parsed # None
  THEN FromStructTime(entry.published_parsed[1])
  ELSE now

\* One pass of the inner loop of fetch_articles over the entries of all
\* feeds in _FEED_URLS order.  st = [seen, results, calls, raised].
RECURSIVE ArticlesLoop(_, _, _, _, _, _)
ArticlesLoop(entries, st, now, cutoff, with_content, failing) ==
  IF entries = <<>> \/ st.raised THEN st
  ELSE
    LET entry == entries[1]
        published == AnthropicPublished(entry, now)
        url == entry.link
    IN IF DtLess(published, cutoff)
       THEN ArticlesLoop(Tail(entries), st, now, cutoff, with_content, failing)
       ELSE IF url \in st.seen
       THEN ArticlesLoop(Tail(entries), st, now, cutoff, with_content, failing)
       ELSE
         LET content == IF with_content
                        THEN GetArticleContent(url, failing) ELSE ""
             calls == IF with_content THEN Append(st.calls, url) ELSE st.calls
             st2 == IF ValidHttpUrl(url)
                    THEN [seen |-> st.seen \cup {url},
                          results |-> Append(st.results,
                             [url |-> NormalizeUrl(url),
                              published_at |-> IsoFormat(published),
                              content |-> content]),
                          calls |-> calls,
                          raised |-> FALSE]
                    ELSE [seen |-> st.seen \cup {url},
                          results |-> st.results,
                          calls |-> calls,
                          raised |-> TRUE]
         IN ArticlesLoop(Tail(entries), st2, now, cutoff, with_content, failing)

\* mutant: fetch_articles raises when no feed has an entry
FetchArticlesNeedsEntries(feeds, now, hours, with_content, failing) ==
  LET st == ArticlesLoop(Flatten(feeds),
                         [seen |-> {}, results |-> <<>>, calls |-> <<>>,
                          raised |-> Flatten(feeds) = <<>>],
                         now, AnthropicCutoff(now, hours), with_content, failing)
  IN [raised |-> st.raised,
      results |-> IF st.raised THEN <<>> ELSE SortByPublishedDesc(st.results),
      calls |-> st.calls]

\* fetch_articles(with_content): [raised, results, calls]
FetchArticles(feeds, now, hours, with_content, failing) ==
  LET st == ArticlesLoop(Flatten(feeds),
                         [seen |-> {}, results |-> <<>>, calls |-> <<>>,
                          raised |-> FALSE],
                         now, AnthropicCutoff(now, hours), with_content, failing)
  IN [raised |-> st.raised,
      results |-> IF st.raised THEN <<>> ELSE SortByPublishedDesc(st.results),
      calls |-> st.calls]

\* ------------------------------------------------------------------------
\* YouTubeScraper (src/scrapers/youtube_scraper.py)
\* ------------------------------------------------------------------------

YT_BASE_URL == <<"h", "t", "t", "p", "s", ":", "/", "/", "w", "w", "w", ".",
                 "y", "o", "u", "t", "u", "b", "e", ".", "c", "o", "m">>

\* CHANNEL_ID_RE = UC[a-zA-Z0-9_-]{22}
ChannelIdTail == 22

IdChars ==
  {"a", "b", "c", "d", "e", "f", "g", "h", "i", "j", "k", "l", "m", "n", "o",
   "p", "q", "r", "s", "t", "u", "v", "w", "x", "y", "z", "A", "B", "C", "D",
   "E", "F", "G", "H", "I", "J", "K", "L", "M", "N", "O", "P", "Q", "R", "S",
   "T", "U", "V", "W", "X", "Y", "Z", "0", "1", "2", "3", "4", "5", "6", "7",
   "8", "9", "_", "-"}

\* CHANNEL_ID_RE.fullmatch(text)
FullMatchChannelId(text) ==
  /\ Len(text) = 2 + ChannelIdTail
  /\ text[1] = "U"
  /\ text[2] = "C"
  /\ \A i \in 3..Len(text) : text[i] \in IdChars

Whitespace == {" ", "\t", "\n"}

RECURSIVE LStrip(_)
LStrip(text) ==
  IF text # <<>> /\ text[1] \in Whitespace THEN LStrip(Tail(text)) ELSE text

RECURSIVE RStrip(_)
RStrip(text) ==
  IF text # <<>> /\ text[Len(text)] \in Whitespace
  THEN RStrip(SubSeq(text, 1, Len(text) - 1))
  ELSE text

\* str.strip()
Strip(text) == RStrip(LStrip(text))

\* str.startswith(prefix)
StartsWith(text, prefix) ==
  Len(text) >= Len(prefix) /\ SubSeq(text, 1, Len(prefix)) = prefix

\* _build_channel_url
BuildChannelUrl(name) ==
  IF StartsWith(name, <<"h", "t", "t", "p">>) THEN name
  ELSE IF \/ StartsWith(name, <<"@">>)
          \/ StartsWith(name, <<"c", "/">>)
          \/ StartsWith(name, <<"u", "s", "e", "r", "/">>)
          \/ StartsWith(name, <<"c", "h", "a", "n", "n", "e", "l", "/">>)
       THEN YT_BASE_URL \o <<"/">> \o name
       ELSE YT_BASE_URL \o <<"/", "@">> \o name

\* mutant: the canonical link is tried before the other strategies
ExtractChannelIdCanonicalFirst(html) ==
  IF html.canonical # <<>> THEN html.canonical
  ELSE IF html.meta # <<>> THEN html.meta
  ELSE IF html.externalId # <<>> THEN html.externalId
  ELSE IF html.feedref # <<>> THEN html.feedref
  ELSE IF html.header # <<>> THEN html.header
  ELSE <<>>

\* _extract_channel_id.  A page is the record of what each pattern would
\* capture in its HTML (None when the pattern does not occur): the four
\* strategies in order, then the "channelId" inside the "header" object.
ExtractChannelId(html) ==
  IF html.meta # None THEN html.meta
  ELSE IF html.externalId # None THEN html.externalId
  ELSE IF html.canonical # None THEN html.canonical
  ELSE IF html.feedref # None THEN html.feedref
  ELSE IF html.header # None THEN html.header
  ELSE None

\* mutant: no early return for an input that already is a channel id
GetChannelIdAlwaysFetch(channel_name, web) ==
  LET name == Strip(channel_name)
      url == BuildChannelUrl(name)
  IN IF url \notin DOMAIN web \/ web[url].status = "error"
     THEN [id |-> None, requests |-> <<url>>, raised |-> FALSE]
     ELSE [id |-> ExtractChannelId(web[url].html), requests |-> <<url>>,
           raised |-> FALSE]

\* mutant: the RequestException of the page fetch is not caught
GetChannelIdRaising(channel_name, web) ==
  LET name == Strip(channel_name)
      url == BuildChannelUrl(name)
  IN IF FullMatchChannelId(name)
     THEN [id |-> Some(name), requests |-> <<>>, raised |-> FALSE]
     ELSE IF url \notin DOMAIN web \/ web[url].status = "error"
          THEN [id |-> None, requests |-> <<url>>, raised |-> TRUE]
          ELSE [id |-> ExtractChannelId(web[url].html), requests |-> <<url>>,
                raised |-> FALSE]

\* get_channel_id: [id, requests, raised]; requests are the page URLs
\* fetched, web the answers of requests.get + raise_for_status.  A
\* RequestException is caught and answered with None.
GetChannelId(channel_name, web) ==
  LET name == Strip(channel_name)
      url == BuildChannelUrl(name)
  IN IF FullMatchChannelId(name)
     THEN [id |-> Some(name), requests |-> <<>>, raised |-> FALSE]
     ELSE IF url \notin DOMAIN web \/ web[url].status = "error"
          THEN [id |-> None, requests |-> <<url>>, raised |-> FALSE]
          ELSE [id |-> ExtractChannelId(web[url].html), requests |-> <<url>>,
                raised |-> FALSE]

\* _parse_date: published_parsed before updated_parsed
ParseDate(entry) ==
  IF entry.published_parsed # None
  THEN Some(FromStructTime(entry.published_parsed[1]))
  ELSE IF entry.updated_parsed # None
       THEN Some(FromStructTime(entry.updated_parsed[1]))
       ELSE None

\* mutant: the video cutoff rounded down to midnight as the article one is
YoutubeCutoffMidnight(now, hours) == Midnight(MinusHours(now, hours))

\* the cutoff of get_latest_videos
YoutubeCutoff(now, hours) == MinusHours(now, hours)

\* VideoMetadata.must_be_non_empty
ValidVideoId(video_id) == Strip(video_id) # <<>>

\* the loop of get_latest_videos.  st = [videos, raised].
RECURSIVE VideosLoop(_, _, _)
VideosLoop(entries, st, cutoff) ==
  IF entries = <<>> \/ st.raised THEN st
  ELSE
    LET entry == entries[1]
        published == ParseDate(entry)
    IN IF published = None \/ DtLess(published[1], cutoff)
       THEN VideosLoop(Tail(entries), st, cutoff)
       ELSE IF ValidVideoId(entry.yt_videoid)
       THEN VideosLoop(Tail(entries),
                       [videos |-> Append(st.videos,
                           [video_id |-> entry.yt_videoid,
                            url |-> YT_BASE_URL
                                      \o <<"/", "w", "a", "t", "c", "h", "?",
                                           "v", "=">> \o entry.yt_videoid,
                            published_at |-> IsoFormat(published[1])]),
                        raised |-> FALSE],
                       cutoff)
       ELSE [videos |-> st.videos, raised |-> TRUE]

\* get_latest_videos(channel_id, hours): [raised, videos]
GetLatestVideos(entries, now, hours) ==
  LET st == VideosLoop(entries, [videos |-> <<>>, raised |-> FALSE],
                       YoutubeCutoff(now, hours))
  IN [raised |-> st.raised,
      videos |-> IF st.raised THEN <<>> ELSE SortByPublishedDesc(st.videos)]

\* The except clauses of get_transcript, and the classes each one catches
\* (every class of youtube_transcript_api derives from
\* CouldNotRetrieveTranscript).
TranscriptErrors ==
  {"NoTranscriptFound", "TranscriptsDisabled", "VideoUnavailable",
   "RequestBlocked", "CouldNotRetrieveTranscript"}

\* mutant: the last clause, except CouldNotRetrieveTranscript, is missing
CaughtByNamedOnly(err) ==
  \/ err = "TranscriptsDisabled"
  \/ err = "VideoUnavailable"
  \/ err = "RequestBlocked"

CaughtByGetTranscript(err) ==
  \/ err = "TranscriptsDisabled"
  \/ err = "VideoUnavailable"
  \/ err = "RequestBlocked"
  \/ err \in TranscriptErrors

\* get_transcript: [raised, value]; value is None after a caught error
GetTranscript(outcome) ==
  IF outcome = "ok" THEN [raised |-> FALSE, value |-> Some("transcript text")]
  ELSE IF CaughtByGetTranscript(outcome)
       THEN [raised |-> FALSE, value |-> None]
       ELSE [raised |-> TRUE, value |-> None]

\* transcript or ""
OrEmpty(value) == IF value = None \/ value = Some("") THEN "" ELSE value[1]

\* ------------------------------------------------------------------------
\* The world the run reads: bounded feeds, handles and pages
\* ------------------------------------------------------------------------

MaxArticles == 2
MaxHandles == 2
MaxVideos == 2
MaxItems == 3
MaxTicks == 1

\* _FEED_URLS has three feeds
NumAnthropicFeeds == 3

\* instants of the feed entries (seconds since the epoch of the model)
StartSecond == 2 * SecPerDay + 12 * SecPerHour
TOld == SecPerDay - 1
TMid == SecPerDay + 6 * SecPerHour
TCut == SecPerDay + 12 * SecPerHour
TNow == StartSecond

HoursSet == {24}

LinkA == [host |-> "example.com", path |-> "/a"]
LinkB == [host |-> "example.com", path |-> "/b"]

RawLinks == {EmptyLink, LinkA, LinkB}

AnthropicEntries ==
  [published_parsed : {None, Some(TOld), Some(TMid), Some(TNow)},
   link : RawLinks]

VideoIds == {<<>>, <<"v", "1">>, <<"v", "2">>}

YoutubeEntries ==
  [published_parsed : {Some(TCut), Some(TNow)},
   updated_parsed : {None}, yt_videoid : VideoIds]
  \cup [published_parsed : {None}, updated_parsed : {None, Some(TNow)},
        yt_videoid : VideoIds]

IdA == <<"U", "C", "a", "a", "a", "a", "a", "a", "a", "a", "a", "a", "a",
         "a", "a", "a", "a", "a", "a", "a", "a", "a", "a", "a">>
IdB == <<"U", "C", "B", "_", "-", "9", "b", "b", "b", "b", "b", "b", "b",
         "b", "b", "b", "b", "b", "b", "b", "b", "b", "b", "b">>
HandleAlpha == <<"@", "a", "l", "p", "h", "a">>
HandleGone == <<"@", "g", "o", "n", "e">>
HandleBlank == <<"b", "l", "a", "n", "k">>

Handles == {IdA, IdB, HandleAlpha, HandleGone, HandleBlank}

ChannelIds == {IdA, IdB}

NoCapture ==
  [meta |-> None, externalId |-> None, canonical |-> None, feedref |-> None,
   header |-> None]

\* the channel pages: @alpha is the page of channel IdA, @gone cannot be
\* fetched, blank is a page that names no channel
WebPages ==
  (BuildChannelUrl(HandleAlpha) :>
     [status |-> "ok", html |-> [NoCapture EXCEPT !.meta = Some(IdA)]])
  @@ (BuildChannelUrl(HandleGone) :> [status |-> "error"])
  @@ (BuildChannelUrl(HandleBlank) :> [status |-> "ok", html |-> NoCapture])

TranscriptOutcomes == {"ok"} \cup TranscriptErrors

\* The conditions channels.json can be in: "ok" is an object whose
\* "youtube_channels" is a list of handles; the file can be missing, not
\* readable or not JSON; its JSON can be a value that is not an object, an
\* object without the key, or an object whose "youtube_channels" is null.
ConfigKinds ==
  {"ok", "absent", "unreadable", "invalid_json", "not_object", "no_key",
   "null_list"}

\* load_channels: open() raises for a missing or unreadable file,
\* json.load for text that is not JSON, data.get for a value that is not an
\* object; a missing key gives the default [].  The null of "null_list" is
\* returned as it is and raises in "for handle in channels".
LoadChannels(kind, list) ==
  IF kind \in {"absent", "unreadable", "invalid_json", "not_object",
               "null_list"}
  THEN [raised |-> TRUE, channels |-> <<>>]
  ELSE IF kind = "no_key" THEN [raised |-> FALSE, channels |-> <<>>]
  ELSE [raised |-> FALSE, channels |-> list]

\* ------------------------------------------------------------------------
\* State
\* ------------------------------------------------------------------------

VARIABLES
  hours, fetch_content, fetch_transcripts,  \* Runner fields
  clock, ticks,                             \* datetime.now(), clock steps
  afeeds,                                   \* entries of the 3 Anthropic feeds
  channels,                                 \* what load_channels returns
  config,                                   \* condition of channels.json
  ytFeeds,                                  \* entries of each channel feed
  convEnv, transcriptEnv,                   \* answers of converter / API
  pc, runsLeft, runStart,
  articles, anthNow, contentCalls,          \* _scrape_anthropic
  idx, all_videos, resolved, ytNow,         \* _scrape_youtube loop
  pageRequests, transcriptCalls,
  reports,                                  \* the dicts run() returned
  call_args, call_result                    \* a direct call of one method

vars ==
  <<hours, fetch_content, fetch_transcripts, clock, ticks, afeeds, channels,
    config, ytFeeds, convEnv, transcriptEnv, pc, runsLeft, runStart, articles,
    anthNow, contentCalls, idx, all_videos, resolved, ytNow, pageRequests,
    transcriptCalls, reports, call_args, call_result>>

\* the arguments and the outcome of a method called outside run()
direct == <<call_args, call_result>>

world ==
  <<hours, fetch_content, fetch_transcripts, afeeds, channels, config,
    ytFeeds>>

runState ==
  <<articles, anthNow, contentCalls, idx, all_videos, resolved, ytNow,
    pageRequests, transcriptCalls>>

\* the channel a handle resolves to, as a set (empty when unresolved)
ResolvedIds(handle) ==
  LET r == GetChannelId(handle, WebPages)
  IN IF r.id = None THEN {} ELSE {r.id[1]}

\* the arguments Runner is built with: main.py's, and the opposite choice
RunnerArgs ==
  {[fetch_content |-> FALSE, fetch_transcripts |-> TRUE],
   [fetch_content |-> TRUE, fetch_transcripts |-> FALSE]}

\* numbers of Anthropic entries, handles and YouTube entries of a world:
\* the two halves of run() share no data, so a world is rich in one half
Shapes ==
  {sh \in (0..MaxArticles) \X (0..MaxHandles) \X (0..MaxVideos) :
     /\ sh[1] + sh[2] + sh[3] <= MaxItems
     /\ sh[1] * (sh[2] + sh[3]) <= 1}

InitWorld(shapes) ==
  /\ hours \in HoursSet
  /\ \E args \in RunnerArgs :
       /\ fetch_content = args.fetch_content
       /\ fetch_transcripts = args.fetch_transcripts
  /\ \E sh \in shapes :
       /\ \E flat \in [1..sh[1] -> AnthropicEntries] :
            \E i \in 0..sh[1] : \E j \in i..sh[1] :
              afeeds = <<SubSeq(flat, 1, i), SubSeq(flat, i + 1, j),
                         SubSeq(flat, j + 1, sh[1])>>
       /\ channels \in [1..sh[2] -> Handles]
       /\ \E flat \in [1..sh[3] -> YoutubeEntries] :
            \E k \in 0..sh[3] :
              ytFeeds = (IdA :> SubSeq(flat, 1, k))
                          @@ (IdB :> SubSeq(flat, k + 1, sh[3]))
  \* a feed no configured handle leads to is never read
  /\ \A c \in ChannelIds :
       ytFeeds[c] # <<>> =>
         \E n \in 1..Len(channels) : c \in ResolvedIds(channels[n])

InitRun(start) ==
  /\ clock = start
  /\ ticks = 0
  /\ convEnv = <<>>
  /\ transcriptEnv = <<>>
  /\ pc = "idle"
  /\ runStart = start
  /\ articles = <<>>
  /\ anthNow = None
  /\ contentCalls = <<>>
  /\ idx = 1
  /\ all_videos = <<>>
  /\ resolved = <<>>
  /\ ytNow = <<>>
  /\ pageRequests = <<>>
  /\ transcriptCalls = <<>>
  /\ reports = <<>>

\* no method is called outside run()
NoDirectCall == call_args = None /\ call_result = None

\* one call of run()
Init ==
  /\ InitWorld(Shapes)
  /\ config = "ok"
  /\ InitRun(Dt(StartSecond, 0))
  /\ runsLeft = 1
  /\ NoDirectCall

\* two calls of run() on the same world
InitTwice ==
  /\ InitWorld({sh \in Shapes : sh[1] <= 1 /\ sh[1] + sh[2] + sh[3] <= 2})
  /\ config = "ok"
  /\ InitRun(Dt(StartSecond, 0))
  /\ runsLeft = 2
  /\ NoDirectCall

\* The scenario feed: three entries dated now-1h, now-30h, now-2h with
\* distinct links and ids, in any order, read at any time of day.
ScenarioTimesOfDay ==
  {h * SecPerHour : h \in 0..23} \cup {6 * SecPerHour - 1}

ScenarioOffsets == <<1, 30, 2>>

ScenarioLinks == <<LinkA, LinkB, [host |-> "example.com", path |-> "/c"]>>

ScenarioIds == <<<<"v", "1">>, <<"v", "2">>, <<"v", "3">>>>

InitFetch ==
  /\ hours = 24
  /\ fetch_content = FALSE
  /\ fetch_transcripts = FALSE
  /\ \E tod \in ScenarioTimesOfDay :
       LET now == 3 * SecPerDay + tod
           stamp(n) == Some(now - ScenarioOffsets[n] * SecPerHour)
       IN /\ InitRun(Dt(now, 0))
          /\ \E order \in Permutations(1..3) : \E k \in 1..NumAnthropicFeeds :
               /\ afeeds =
                    [f \in 1..NumAnthropicFeeds |->
                       IF f = k
                       THEN [n \in 1..3 |->
                               [published_parsed |-> stamp(order[n]),
                                link |-> ScenarioLinks[order[n]]]]
                       ELSE <<>>]
               /\ ytFeeds =
                    (IdA :> [n \in 1..3 |->
                               [published_parsed |-> stamp(order[n]),
                                updated_parsed |-> None,
                                yt_videoid |-> ScenarioIds[order[n]]]])
                      @@ (IdB :> <<>>)
  /\ channels = <<IdA>>
  /\ config = "ok"
  /\ runsLeft = 1
  /\ NoDirectCall

\* ------------------------------------------------------------------------
\* Runner (src/runner.py)
\* ------------------------------------------------------------------------

SeqToSet(q) == {q[n] : n \in 1..Len(q)}

\* the clock moves between any two steps, as long as a run can still read it
TickSteps == {Dt(0, MicroPerSec \div 2), Dt(SecPerHour, 0)}

DtPlus(t, d) ==
  Dt(t.s + d.s + ((t.u + d.u) \div MicroPerSec), (t.u + d.u) % MicroPerSec)

Tick ==
  /\ pc # "crashed"
  /\ pc # "idle" \/ (runsLeft > 0 /\ reports # <<>>)
  /\ ticks < MaxTicks
  /\ \E d \in TickSteps : clock' = DtPlus(clock, d)
  /\ ticks' = ticks + 1
  /\ UNCHANGED <<direct, world, convEnv, transcriptEnv, pc, runsLeft, runStart,
                 runState, reports>>

\* run() is called
StartRun ==
  /\ pc = "idle"
  /\ runsLeft > 0
  /\ runsLeft' = runsLeft - 1
  /\ runStart' = clock
  /\ pc' = "anthropic"
  /\ articles' = <<>>
  /\ anthNow' = None
  /\ contentCalls' = <<>>
  /\ idx' = 1
  /\ all_videos' = <<>>
  /\ resolved' = <<>>
  /\ ytNow' = <<>>
  /\ pageRequests' = <<>>
  /\ transcriptCalls' = <<>>
  /\ UNCHANGED <<direct, world, clock, ticks, convEnv, transcriptEnv, reports>>

\* _scrape_anthropic: fetch_articles(with_content=self.fetch_content).
\* The converter's answer for a link is fixed the first time it is asked.
ScrapeAnthropic ==
  /\ pc = "anthropic"
  /\ LET asked == SeqToSet(FetchArticles(afeeds, clock, hours,
                                         fetch_content, {}).calls)
     IN \E answers \in [asked \ DOMAIN convEnv -> {"ok", "error"}] :
          /\ \A u \in DOMAIN answers :
               ~ValidHttpUrl(u) => answers[u] = "error"
          /\ convEnv' = answers @@ convEnv
  /\ LET failing == {u \in DOMAIN convEnv' : convEnv'[u] = "error"}
         r == FetchArticles(afeeds, clock, hours, fetch_content, failing)
     IN /\ anthNow' = Some(clock)
        /\ contentCalls' = r.calls
        /\ IF r.raised
           THEN pc' = "crashed" /\ articles' = <<>>
           ELSE pc' = "load" /\ articles' = r.results
  /\ UNCHANGED <<direct, world, clock, ticks, transcriptEnv, runsLeft, runStart, idx,
                 all_videos, resolved, ytNow, pageRequests, transcriptCalls,
                 reports>>

\* the first statement of _scrape_youtube: channels = load_channels()
ReadChannels ==
  /\ pc = "load"
  /\ LET r == LoadChannels(config, channels)
     IN pc' = IF r.raised THEN "crashed" ELSE "youtube"
  /\ UNCHANGED <<direct, world, clock, ticks, convEnv, transcriptEnv,
                 runsLeft, runStart, runState, reports>>

\* mutant: the video is not tagged with its handle
TagVideoUntagged(video, handle, with_transcripts, env) ==
  [video_id |-> video.video_id,
   url |-> video.url,
   published_at |-> video.published_at,
   channel |-> <<>>,
   transcript |-> IF with_transcripts
                  THEN OrEmpty(GetTranscript(env[video.video_id]).value)
                  ELSE ""]

\* the body of "for video in videos" of _scrape_youtube
TagVideo(video, handle, with_transcripts, env) ==
  [video_id |-> video.video_id,
   url |-> video.url,
   published_at |-> video.published_at,
   channel |-> handle,
   transcript |-> IF with_transcripts
                  THEN OrEmpty(GetTranscript(env[video.video_id]).value)
                  ELSE ""]

\* one iteration of "for handle in channels" of _scrape_youtube
ScrapeHandle ==
  /\ pc = "youtube"
  /\ idx <= Len(channels)
  /\ LET handle == channels[idx]
         r == GetChannelId(handle, WebPages)
     IN /\ pageRequests' = pageRequests \o r.requests
        /\ resolved' = Append(resolved, r.id)
        /\ IF r.raised
           THEN /\ pc' = "crashed"
                /\ ytNow' = Append(ytNow, None)
                /\ UNCHANGED <<idx, all_videos, transcriptEnv,
                               transcriptCalls>>
           ELSE IF r.id = None
           THEN /\ pc' = "youtube"
                /\ idx' = idx + 1
                /\ ytNow' = Append(ytNow, None)
                /\ UNCHANGED <<all_videos, transcriptEnv, transcriptCalls>>
           ELSE
             LET entries == IF r.id[1] \in DOMAIN ytFeeds
                            THEN ytFeeds[r.id[1]] ELSE <<>>
                 v == GetLatestVideos(entries, clock, hours)
                 ids == [n \in 1..Len(v.videos) |-> v.videos[n].video_id]
                 asked == IF fetch_transcripts THEN SeqToSet(ids) ELSE {}
             IN /\ ytNow' = Append(ytNow, Some(clock))
                /\ IF v.raised
                   THEN /\ pc' = "crashed"
                        /\ UNCHANGED <<idx, all_videos, transcriptEnv,
                                       transcriptCalls>>
                   ELSE
                     \E answers \in [asked \ DOMAIN transcriptEnv
                                       -> TranscriptOutcomes] :
                       /\ transcriptEnv' = answers @@ transcriptEnv
                       /\ transcriptCalls' =
                            transcriptCalls
                              \o (IF fetch_transcripts THEN ids ELSE <<>>)
                       /\ IF \E n \in 1..Len(ids) :
                               /\ fetch_transcripts
                               /\ GetTranscript(transcriptEnv'[ids[n]]).raised
                          THEN pc' = "crashed" /\ UNCHANGED <<idx, all_videos>>
                          ELSE /\ pc' = "youtube"
                               /\ idx' = idx + 1
                               /\ all_videos' =
                                    all_videos
                                      \o [n \in 1..Len(v.videos) |->
                                            TagVideo(v.videos[n], handle,
                                                     fetch_transcripts,
                                                     transcriptEnv')]
  /\ UNCHANGED <<direct, world, clock, ticks, convEnv, runsLeft, runStart, articles,
                 anthNow, contentCalls, reports>>

\* after the loop: the sort of _scrape_youtube, then run() builds the report
FinishRun ==
  /\ pc = "youtube"
  /\ idx > Len(channels)
  /\ LET videos == SortByPublishedDesc(all_videos)
     IN /\ all_videos' = videos
        /\ reports' = Append(reports,
             [generated_at |-> clock,
              hours |-> hours,
              anthropic |-> [count |-> Len(articles), articles |-> articles],
              youtube |-> [count |-> Len(videos), videos |-> videos]])
  /\ pc' = "idle"
  /\ UNCHANGED <<direct, world, clock, ticks, convEnv, transcriptEnv, runsLeft,
                 runStart, articles, anthNow, contentCalls, idx, resolved,
                 ytNow, pageRequests, transcriptCalls>>

Next ==
  \/ Tick
  \/ StartRun
  \/ ScrapeAnthropic
  \/ ReadChannels
  \/ ScrapeHandle
  \/ FinishRun

Spec == Init /\ [][Next]_vars

SpecTwice == InitTwice /\ [][Next]_vars

SpecFetch == InitFetch /\ [][Next]_vars

\* one call of run() with channels.json in any condition; a file that
\* yields no list of handles has none to return
InitConfig ==
  /\ config \in ConfigKinds
  /\ InitWorld({sh \in Shapes :
                  /\ sh[1] <= 1
                  /\ sh[1] + sh[2] + sh[3] <= 2
                  /\ config # "ok" => (sh[2] = 0 /\ sh[3] = 0)})
  /\ InitRun(Dt(StartSecond, 0))
  /\ runsLeft = 1
  /\ NoDirectCall

SpecConfig == InitConfig /\ [][Next]_vars

\* ------------------------------------------------------------------------
\* Properties
\* ------------------------------------------------------------------------

Reports == SeqToSet(reports)

Distinct(q) == \A m, n \in 1..Len(q) : m # n => q[m] # q[n]

Urls(entries) == [n \in 1..Len(entries) |-> entries[n].url]

VideoKeys(entries) == [n \in 1..Len(entries) |-> entries[n].video_id]

\* C1: in every report the urls of the articles are pairwise distinct and
\* the video ids of the videos are pairwise distinct.
C1_DistinctKeys ==
  \A r \in Reports :
    /\ Distinct(Urls(r.anthropic.articles))
    /\ Distinct(VideoKeys(r.youtube.videos))

SortedDesc(entries) ==
  \A n \in 1..(Len(entries) - 1) :
    DtLeq(ParseIso(entries[n + 1].published_at),
          ParseIso(entries[n].published_at))

\* C3: both lists of every report are in descending order of the publish
\* instant.
C3_SortedDesc ==
  \A r \in Reports :
    SortedDesc(r.anthropic.articles) /\ SortedDesc(r.youtube.videos)

\* C4: two runs over the same feeds, pages and transcripts return reports
\* that agree in every field but generated_at.
C4_Idempotent ==
  Len(reports) = 2 =>
    /\ reports[1].hours = reports[2].hours
    /\ reports[1].anthropic = reports[2].anthropic
    /\ reports[1].youtube = reports[2].youtube

PublishedAts(entries) == [n \in 1..Len(entries) |-> entries[n].published_at]

\* the ISO text of the scenario entry dated `back` hours before the clock
ScenarioStamp(back) == IsoFormat(Dt(clock.s - back * SecPerHour, 0))

\* the fetch of the scenario feed happened at the scenario's now
AnthropicFetchedNow == ticks = 0 /\ anthNow # None /\ pc # "crashed"

YoutubeFetchedNow == ticks = 0 /\ Len(ytNow) = 1 /\ pc # "crashed"

\* C5 as stated: the scenario feed yields exactly the entries dated now-1h
\* and now-2h, in that order, from both adapters at every time of day.
C5_ScenarioTwoEntries ==
  /\ AnthropicFetchedNow =>
       PublishedAts(articles) = <<ScenarioStamp(1), ScenarioStamp(2)>>
  /\ YoutubeFetchedNow =>
       PublishedAts(all_videos) = <<ScenarioStamp(1), ScenarioStamp(2)>>

\* C5 amended: get_latest_videos yields [now-1h, now-2h] at every time of
\* day; fetch_articles yields [now-1h, now-2h] when now is before 06:00 UTC
\* and [now-1h, now-2h, now-30h] from 06:00 UTC on.
C5_ScenarioByTimeOfDay ==
  /\ AnthropicFetchedNow =>
       PublishedAts(articles) =
         IF clock.s % SecPerDay < 6 * SecPerHour
         THEN <<ScenarioStamp(1), ScenarioStamp(2)>>
         ELSE <<ScenarioStamp(1), ScenarioStamp(2), ScenarioStamp(30)>>
  /\ YoutubeFetchedNow =>
       PublishedAts(all_videos) = <<ScenarioStamp(1), ScenarioStamp(2)>>

\* both adapters have read the scenario feed at 12:00, the articles kept
\* the entry dated now-30h and the videos did not
C5_Witness ==
  /\ AnthropicFetchedNow /\ YoutubeFetchedNow
  /\ clock.s % SecPerDay = 12 * SecPerHour
  /\ Len(articles) = 3
  /\ Len(all_videos) = 2

\* "UC" followed by 22 characters of [a-zA-Z0-9_-]
FixedFormatId(text) ==
  /\ Len(text) = 24
  /\ SubSeq(text, 1, 2) = <<"U", "C">>
  /\ \A n \in 3..24 : text[n] \in IdChars

\* C6: a handle that already is a fixed-format channel identifier resolves
\* to itself, and resolving it fetches no page.
C6_IdUnchanged ==
  [][(/\ pc = "youtube"
      /\ idx <= Len(channels)
      /\ resolved' # resolved
      /\ FixedFormatId(channels[idx]))
       => /\ resolved' = Append(resolved, Some(channels[idx]))
          /\ pageRequests' = pageRequests]_vars

\* the first handle is a fixed-format identifier and has been resolved
C6_Witness ==
  /\ Len(resolved) >= 1
  /\ FixedFormatId(channels[1])
  /\ resolved[1] = Some(channels[1])
  /\ pageRequests = <<>>

FeedOf(feeds, id) == IF id \in DOMAIN feeds THEN feeds[id] ELSE <<>>

\* What the loop of _scrape_youtube adds for the handles 1..n that
\* resolved, each read at the instant recorded for it, with the handles
\* that did not resolve left out.
RECURSIVE VideosOfResolving(_, _, _)
VideosOfResolving(n, feeds, with_transcripts) ==
  IF n = 0 THEN <<>>
  ELSE VideosOfResolving(n - 1, feeds, with_transcripts)
         \o (IF resolved[n] = None THEN <<>>
             ELSE LET vs == GetLatestVideos(FeedOf(feeds, resolved[n][1]),
                                            ytNow[n][1], hours).videos
                  IN [m \in 1..Len(vs) |->
                        TagVideo(vs[m], channels[n], with_transcripts,
                                 transcriptEnv)])

\* C7: a handle that does not resolve ends neither the run nor the loop:
\* every configured handle is visited and the videos of the report are
\* those of a run over the resolving handles alone.
C7_UnresolvedSkipped ==
  /\ (pc = "crashed" /\ resolved # <<>>) => resolved[Len(resolved)] # None
  /\ \A r \in Reports :
       /\ Len(resolved) = Len(channels)
       /\ r.youtube.videos =
            SortByPublishedDesc(
              VideosOfResolving(Len(channels), ytFeeds, fetch_transcripts))

\* a report of a run whose first handle did not resolve and whose second
\* handle contributed a video
C7_Witness ==
  /\ reports # <<>>
  /\ Len(channels) = 2
  /\ resolved[1] = None
  /\ \E n \in 1..Len(reports[1].youtube.videos) :
       reports[1].youtube.videos[n].channel = channels[2]

NoContent(entries) ==
  [n \in 1..Len(entries) |-> [entries[n] EXCEPT !.content = ""]]

NoTranscript(entries) ==
  [n \in 1..Len(entries) |-> [entries[n] EXCEPT !.transcript = ""]]

\* C8: a failed content or transcript fetch ends no run, leaves "" in the
\* item's enrichment field, and changes nothing else: a run stops only
\* where it stops with enrichment off, every other field of the report is
\* what it is with enrichment off, and each enrichment field is the text
\* fetched for that item, "" when its fetch failed.
C8_EnrichmentContained ==
  /\ (pc = "crashed" /\ resolved = <<>>) =>
       FetchArticles(afeeds, anthNow[1], hours, FALSE, {}).raised
  /\ (pc = "crashed" /\ resolved # <<>>) =>
       /\ resolved[Len(resolved)] # None
       /\ GetLatestVideos(FeedOf(ytFeeds, resolved[Len(resolved)][1]),
                          ytNow[Len(ytNow)][1], hours).raised
  /\ \A r \in Reports :
       /\ NoContent(r.anthropic.articles) =
            FetchArticles(afeeds, anthNow[1], hours, FALSE, {}).results
       /\ \A n \in 1..Len(r.anthropic.articles) :
            LET a == r.anthropic.articles[n]
            IN IF fetch_content
               THEN \E raw \in DOMAIN convEnv :
                      /\ NormalizeUrl(raw) = a.url
                      /\ a.content = IF convEnv[raw] = "error"
                                     THEN "" ELSE "markdown"
               ELSE a.content = ""
       /\ NoTranscript(r.youtube.videos) =
            SortByPublishedDesc(VideosOfResolving(Len(channels), ytFeeds, FALSE))
       /\ \A n \in 1..Len(r.youtube.videos) :
            LET v == r.youtube.videos[n]
            IN v.transcript =
                 IF fetch_transcripts /\ transcriptEnv[v.video_id] = "ok"
                 THEN "transcript text" ELSE ""

\* a report with two videos: the transcript of one could not be fetched,
\* the other has its text
C8_Witness ==
  \E r \in Reports :
    \E m, n \in 1..Len(r.youtube.videos) :
      /\ fetch_transcripts
      /\ transcriptEnv[r.youtube.videos[m].video_id] \in TranscriptErrors
      /\ r.youtube.videos[m].transcript = ""
      /\ r.youtube.videos[n].transcript = "transcript text"

\* a handle whose page cannot be fetched or names no channel, or whose
\* channel feed has no entries (an unreachable feed parses to no entries)
UnreachableHandle(handle) ==
  \A id \in ResolvedIds(handle) : FeedOf(ytFeeds, id) = <<>>

AllUnreachable ==
  /\ \A f \in 1..NumAnthropicFeeds : afeeds[f] = <<>>
  /\ \A n \in 1..Len(channels) : UnreachableHandle(channels[n])

\* C9: an unreachable source ends no run and adds nothing to the report,
\* every handle is still visited, and when every source is unreachable the
\* report has count 0 and an empty list in both categories.
C9_UnreachableSources ==
  /\ (pc = "crashed" /\ resolved = <<>>) => Flatten(afeeds) # <<>>
  /\ (pc = "crashed" /\ resolved # <<>>) =>
       ~UnreachableHandle(channels[Len(resolved)])
  /\ AllUnreachable => pc # "crashed"
  /\ \A r \in Reports :
       /\ Len(resolved) = Len(channels)
       /\ \A n \in 1..Len(r.youtube.videos) :
            ~UnreachableHandle(r.youtube.videos[n].channel)
       /\ AllUnreachable =>
            /\ r.anthropic = [count |-> 0, articles |-> <<>>]
            /\ r.youtube = [count |-> 0, videos |-> <<>>]

\* a report of a run over two handles, one that cannot be resolved and one
\* whose feed is unreachable, and three unreachable Anthropic feeds
C9_Witness ==
  /\ AllUnreachable
  /\ reports # <<>>
  /\ Len(channels) = 2
  /\ \E m, n \in 1..2 : resolved[m] = None /\ resolved[n] # None
  /\ reports[1].anthropic.count = 0
  /\ reports[1].youtube.count = 0

\* the feeds without the entries that lack a publish time or a usable
\* link / video id
WellFormedArticle(entry) ==
  entry.published_parsed # None /\ entry.link.host # ""

WellFormedVideo(entry) ==
  /\ entry.published_parsed # None \/ entry.updated_parsed # None
  /\ Strip(entry.yt_videoid) # <<>>

\* C10: an entry without a publish time or with an unusable link or video
\* id is dropped and nothing else: no adapter raises, and the report lists
\* what it would list if the feeds held only the well-formed entries.
C10_DropsOnlyBadItem ==
  /\ pc # "crashed"
  /\ \A r \in Reports :
       /\ NoContent(r.anthropic.articles) =
            FetchArticles([f \in 1..NumAnthropicFeeds |->
                             SelectSeq(afeeds[f], WellFormedArticle)],
                          anthNow[1], hours, FALSE, {}).results
       /\ NoTranscript(r.youtube.videos) =
            SortByPublishedDesc(
              VideosOfResolving(Len(channels),
                                [id \in DOMAIN ytFeeds |->
                                   SelectSeq(ytFeeds[id], WellFormedVideo)],
                                FALSE))

\* ------------------------------------------------------------------------
\* get_transcript: the choice of the track (youtube_scraper.py 147-161)
\* ------------------------------------------------------------------------

DEFAULT_LANGUAGES == <<"en", "en-US", "en-GB">>

\* A TranscriptList keeps two dicts keyed by language code, the manually
\* created and the generated tracks; here each is the sequence of its
\* values in insertion order.  A track is [language_code, is_generated,
\* snippets], a snippet a text.

\* TranscriptList._find_transcript: the first language code, in the order
\* given, that is a key of one of the dicts, the dicts tried in order;
\* None stands for raise NoTranscriptFound
RECURSIVE FindInDicts(_, _)
FindInDicts(language_codes, dicts) ==
  IF language_codes = <<>> THEN None
  ELSE LET hits == SelectSeq(Flatten(dicts),
                     LAMBDA t : t.language_code = language_codes[1])
       IN IF hits # <<>> THEN Some(hits[1])
          ELSE FindInDicts(Tail(language_codes), dicts)

FindManuallyCreatedTranscript(transcript_list, language_codes) ==
  FindInDicts(language_codes, <<transcript_list.manual>>)

FindGeneratedTranscript(transcript_list, language_codes) ==
  FindInDicts(language_codes, <<transcript_list.generated>>)

FindTranscript(transcript_list, language_codes) ==
  FindInDicts(language_codes,
              <<transcript_list.manual, transcript_list.generated>>)

\* [t.language_code for t in transcript_list]: manual tracks first
LanguageCodesOf(transcript_list) ==
  LET all == transcript_list.manual \o transcript_list.generated
  IN [n \in 1..Len(all) |-> all[n].language_code]

\* " ".join(texts)
RECURSIVE JoinWithSpaces(_)
JoinWithSpaces(texts) ==
  IF texts = <<>> THEN <<>>
  ELSE IF Len(texts) = 1 THEN texts[1]
  ELSE texts[1] \o <<" ">> \o JoinWithSpaces(Tail(texts))

\* mutant: the generated tracks are asked before the manually created ones
SelectTranscriptGeneratedFirst(transcript_list, languages) ==
  LET generated == FindGeneratedTranscript(transcript_list, languages)
  IN IF generated # None THEN generated
     ELSE LET manual ==
                FindManuallyCreatedTranscript(transcript_list, languages)
          IN IF manual # None THEN manual
             ELSE FindTranscript(transcript_list,
                                 LanguageCodesOf(transcript_list))

\* the nested try / except NoTranscriptFound of get_transcript
SelectTranscript(transcript_list, languages) ==
  LET manual == FindManuallyCreatedTranscript(transcript_list, languages)
  IN IF manual # None THEN manual
     ELSE LET generated ==
                FindGeneratedTranscript(transcript_list, languages)
          IN IF generated # None THEN generated
             ELSE FindTranscript(transcript_list,
                                 LanguageCodesOf(transcript_list))

\* get_transcript once the list of tracks is known: the joined text; None
\* when the last find raises NoTranscriptFound, which the clause
\* except CouldNotRetrieveTranscript catches
GetTranscriptOfList(transcript_list, languages) ==
  LET transcript == SelectTranscript(transcript_list, languages)
  IN IF transcript = None THEN None
     ELSE Some(JoinWithSpaces(transcript[1].snippets))

MaxTracks == 2
MaxSnippets == 2

TrackLanguages == {"en", "en-GB", "fr"}

LanguageText(code) ==
  CASE code = "en" -> <<"e", "n">>
    [] code = "en-GB" -> <<"e", "n", "-", "G", "B">>
    [] code = "fr" -> <<"f", "r">>

\* the snippets of a track name the track: kind, language, position
SnippetsOf(is_generated, code, count) ==
  [k \in 1..count |->
     <<IF is_generated THEN "g" ELSE "m">> \o LanguageText(code)
       \o <<DigitChar(k)>>]

Track(is_generated, code, count) ==
  [language_code |-> code, is_generated |-> is_generated,
   snippets |-> SnippetsOf(is_generated, code, count)]

\* the values of one dict: at most MaxTracks tracks of distinct languages
TrackDicts(is_generated) ==
  UNION {{[k \in 1..n |-> Track(is_generated, codes[k], counts[k])] :
            codes \in {c \in [1..n -> TrackLanguages] :
                         \A i, j \in 1..n : i # j => c[i] # c[j]},
            counts \in [1..n -> 1..MaxSnippets]} :
         n \in 0..MaxTracks}

LanguageChoices == {DEFAULT_LANGUAGES, <<"fr", "en">>}

\* a world in which run() is never called
InitDirect ==
  /\ hours = 24
  /\ fetch_content = FALSE
  /\ fetch_transcripts = FALSE
  /\ afeeds = [f \in 1..NumAnthropicFeeds |-> <<>>]
  /\ channels = <<>>
  /\ config = "ok"
  /\ ytFeeds = (IdA :> <<>>) @@ (IdB :> <<>>)
  /\ InitRun(Dt(StartSecond, 0))
  /\ runsLeft = 0
  /\ call_result = None

InitTranscript ==
  /\ InitDirect
  /\ \E manual \in TrackDicts(FALSE) : \E generated \in TrackDicts(TRUE) :
       \E languages \in LanguageChoices :
         call_args = Some([transcript_list |->
                             [manual |-> manual, generated |-> generated],
                           languages |-> languages])

\* scraper.get_transcript(video_id) on a video with these tracks
CallGetTranscript ==
  /\ call_args # None
  /\ call_result = None
  /\ call_result' = Some(GetTranscriptOfList(call_args[1].transcript_list,
                                             call_args[1].languages))
  /\ UNCHANGED <<call_args, world, clock, ticks, convEnv, transcriptEnv, pc,
                 runsLeft, runStart, runState, reports>>

SpecTranscript == InitTranscript /\ [][CallGetTranscript]_vars

\* the position of the first preferred language that has a track among
\* `tracks`, 0 when none has
FirstPreferred(tracks, languages) ==
  LET hits == {i \in 1..Len(languages) :
                 \E n \in 1..Len(tracks) :
                   tracks[n].language_code = languages[i]}
  IN IF hits = {} THEN 0
     ELSE CHOOSE i \in hits : \A j \in hits : i <= j

\* text is the snippets in order with one space between neighbours
RECURSIVE IsSpaceJoined(_, _)
IsSpaceJoined(text, snippets) ==
  IF snippets = <<>> THEN text = <<>>
  ELSE IF Len(snippets) = 1 THEN text = snippets[1]
  ELSE LET n == Len(snippets[1])
       IN /\ Len(text) > n
          /\ SubSeq(text, 1, n) = snippets[1]
          /\ text[n + 1] = " "
          /\ IsSpaceJoined(SubSeq(text, n + 2, Len(text)), Tail(snippets))

ReturnsTrack(result, tracks, code) ==
  \E n \in 1..Len(tracks) :
    /\ tracks[n].language_code = code
    /\ result # None
    /\ IsSpaceJoined(result[1], tracks[n].snippets)

\* C11: get_transcript returns the space-joined snippets of (a) the manual
\* track of the first preferred language that has one, else (b) the
\* generated track of the first preferred language that has one, else (c)
\* some track of the video.
C11_TrackPriority ==
  call_result # None =>
    LET list == call_args[1].transcript_list
        languages == call_args[1].languages
        m == FirstPreferred(list.manual, languages)
        g == FirstPreferred(list.generated, languages)
        all == list.manual \o list.generated
    IN IF m # 0 THEN ReturnsTrack(call_result[1], list.manual, languages[m])
       ELSE IF g # 0
       THEN ReturnsTrack(call_result[1], list.generated, languages[g])
       ELSE all # <<>> =>
              \E n \in 1..Len(all) :
                ReturnsTrack(call_result[1], <<all[n]>>, all[n].language_code)

\* the call returned the two snippets of the manual en-GB track although a
\* generated track of the more preferred "en" and a manual "fr" track exist
C11_Witness ==
  /\ call_args # None /\ call_result # None
  /\ call_args[1].languages = DEFAULT_LANGUAGES
  /\ \E n \in 1..Len(call_args[1].transcript_list.generated) :
       call_args[1].transcript_list.generated[n].language_code = "en"
  /\ Len(call_args[1].transcript_list.manual) = 2
  /\ call_args[1].transcript_list.manual[1].language_code = "fr"
  /\ call_result[1] =
       Some(<<"m", "e", "n", "-", "G", "B", "1", " ",
              "m", "e", "n", "-", "G", "B", "2">>)

\* ------------------------------------------------------------------------
\* Configuration failures (runner.py 29-33, 100)
\* ------------------------------------------------------------------------

\* channels.json is a readable JSON object with a "youtube_channels" list
UsableConfig == config = "ok"

\* C12: when channels.json yields no source list the run fails and returns
\* no report, and a run fails for no other reason.
C12_OnlyConfigFatal ==
  /\ ~UsableConfig => reports = <<>>
  /\ (~UsableConfig /\ pc \in {"youtube", "idle"}) => runsLeft > 0
  /\ pc = "crashed" => ~UsableConfig

\* ------------------------------------------------------------------------
\* LesAffairesRSS (src/scrapers/lesaffaires_rss.py) and the deduplication
\* of the merging adapters
\* ------------------------------------------------------------------------

\* _FEED_URLS of lesaffaires_rss.py has 23 categories
NumLesAffairesFeeds == 23

\* LesAffairesRSS._get_entry_date: published_parsed before updated_parsed
GetEntryDate(entry) ==
  IF entry.published_parsed # None
  THEN Some(FromStructTime(entry.published_parsed[1]))
  ELSE IF entry.updated_parsed # None
       THEN Some(FromStructTime(entry.updated_parsed[1]))
       ELSE None

\* results.sort(key=lambda r: r["published"], reverse=True): stable, the
\* keys are ISO texts
RECURSIVE InsertDescPublished(_, _)
InsertDescPublished(sorted, x) ==
  IF sorted = <<>> THEN <<x>>
  ELSE IF StrLess(sorted[1].published, x.published)
       THEN <<x>> \o sorted
       ELSE <<sorted[1]>> \o InsertDescPublished(Tail(sorted), x)

RECURSIVE SortByPublished(_)
SortByPublished(list) ==
  IF list = <<>> THEN <<>>
  ELSE InsertDescPublished(SortByPublished(SubSeq(list, 1, Len(list) - 1)),
                           list[Len(list)])

\* the loop of get_latest.  st = [results, raised]; ArticleMetadata raises
\* for a link that is no http URL
RECURSIVE LatestLoop(_, _, _)
LatestLoop(entries, st, cutoff) ==
  IF entries = <<>> \/ st.raised THEN st
  ELSE
    LET entry == entries[1]
        published == GetEntryDate(entry)
    IN IF published = None \/ DtLess(published[1], cutoff)
       THEN LatestLoop(Tail(entries), st, cutoff)
       ELSE IF ValidHttpUrl(entry.link)
       THEN LatestLoop(Tail(entries),
                       [results |-> Append(st.results,
                           [url |-> NormalizeUrl(entry.link),
                            published |-> IsoFormat(published[1])]),
                        raised |-> FALSE],
                       cutoff)
       ELSE [results |-> st.results, raised |-> TRUE]

\* get_latest(category, hours) on the entries of the category's feed
GetLatest(entries, now, h) ==
  LET st == LatestLoop(entries, [results |-> <<>>, raised |-> FALSE],
                       MinusHours(now, h))
  IN [raised |-> st.raised,
      results |-> IF st.raised THEN <<>> ELSE SortByPublished(st.results)]

\* mutant: a later article replaces the one kept for its url
RECURSIVE MergeCategoryKeepLast(_, _)
MergeCategoryKeepLast(found, st) ==
  IF found = <<>> THEN st
  ELSE IF found[1].url \in st.seen
       THEN MergeCategoryKeepLast(Tail(found),
              [st EXCEPT !.results =
                 [n \in 1..Len(st.results) |->
                    IF st.results[n].url = found[1].url
                    THEN found[1] ELSE st.results[n]]])
       ELSE MergeCategoryKeepLast(Tail(found),
              [st EXCEPT !.seen = st.seen \cup {found[1].url},
                         !.results = Append(st.results, found[1])])

\* "if article["url"] not in seen" over the articles of one category
RECURSIVE MergeCategory(_, _)
MergeCategory(found, st) ==
  IF found = <<>> THEN st
  ELSE IF found[1].url \in st.seen
       THEN MergeCategory(Tail(found), st)
       ELSE MergeCategory(Tail(found),
                          [st EXCEPT !.seen = st.seen \cup {found[1].url},
                                     !.results = Append(st.results, found[1])])

\* "for category in _FEED_URLS" of get_latest_all.
\* st = [seen, results, raised]
RECURSIVE MergeAll(_, _, _, _)
MergeAll(feeds, st, now, h) ==
  IF feeds = <<>> \/ st.raised THEN st
  ELSE LET r == GetLatest(feeds[1], now, h)
       IN IF r.raised THEN [st EXCEPT !.raised = TRUE]
          ELSE MergeAll(Tail(feeds), MergeCategory(r.results, st), now, h)

\* get_latest_all(hours): [raised, kept, results]; kept is the list before
\* the final sort
GetLatestAll(feeds, now, h) ==
  LET st == MergeAll(feeds, [seen |-> {}, results |-> <<>>, raised |-> FALSE],
                     now, h)
  IN [raised |-> st.raised,
      kept |-> IF st.raised THEN <<>> ELSE st.results,
      results |-> IF st.raised THEN <<>> ELSE SortByPublished(st.results)]

MaxFeedEntries == 3

\* entries of the merged feeds: outside the window, on its edge, inside it,
\* or without a publish time
MergeEntries ==
  [published_parsed : {None, Some(TOld), Some(TCut), Some(TNow)},
   updated_parsed : {None},
   link : {LinkA, LinkB}]

\* up to MaxFeedEntries entries spread over the first three feeds
InitMerge ==
  /\ InitDirect
  /\ \E fn \in {"AnthropicScraper.fetch_articles",
                "LesAffairesRSS.get_latest_all"} :
       \E n \in 0..MaxFeedEntries : \E flat \in [1..n -> MergeEntries] :
         \E i \in 0..n : \E j \in i..n :
           call_args =
             Some([fn |-> fn,
                   feeds |-> <<SubSeq(flat, 1, i), SubSeq(flat, i + 1, j),
                               SubSeq(flat, j + 1, n)>>])

\* AnthropicScraper(hours).fetch_articles(with_content=False)
CallFetchArticles ==
  /\ call_args # None
  /\ call_args[1].fn = "AnthropicScraper.fetch_articles"
  /\ call_result = None
  /\ LET st == ArticlesLoop(Flatten(call_args[1].feeds),
                            [seen |-> {}, results |-> <<>>, calls |-> <<>>,
                             raised |-> FALSE],
                            clock, AnthropicCutoff(clock, hours), FALSE, {})
         r == FetchArticles(call_args[1].feeds, clock, hours, FALSE, {})
     IN call_result' = Some([raised |-> r.raised,
                             kept |-> IF st.raised THEN <<>> ELSE st.results,
                             results |-> r.results])
  /\ UNCHANGED <<call_args, world, clock, ticks, convEnv, transcriptEnv, pc,
                 runsLeft, runStart, runState, reports>>

\* LesAffairesRSS(hours).get_latest_all(): the categories after the third
\* have empty feeds
CallGetLatestAll ==
  /\ call_args # None
  /\ call_args[1].fn = "LesAffairesRSS.get_latest_all"
  /\ call_result = None
  /\ call_result' =
       Some(GetLatestAll([c \in 1..NumLesAffairesFeeds |->
                            IF c <= Len(call_args[1].feeds)
                            THEN call_args[1].feeds[c] ELSE <<>>],
                         clock, hours))
  /\ UNCHANGED <<call_args, world, clock, ticks, convEnv, transcriptEnv, pc,
                 runsLeft, runStart, runState, reports>>

SpecMerge == InitMerge /\ [][CallFetchArticles \/ CallGetLatestAll]_vars

\* the entries the deduplication visits, in visiting order, as [url, stamp]:
\* fetch_articles visits the in-window entries of the feeds in feed order,
\* get_latest_all the articles get_latest returned for each category
VisitedArticles(feeds) ==
  LET inside == SelectSeq(Flatten(feeds),
                  LAMBDA e : ~DtLess(AnthropicPublished(e, clock),
                                     Midnight(MinusHours(clock, hours))))
  IN [n \in 1..Len(inside) |->
        [url |-> NormalizeUrl(inside[n].link),
         stamp |-> IsoFormat(AnthropicPublished(inside[n], clock))]]

VisitedLatest(feeds) ==
  LET found == Flatten([c \in 1..Len(feeds) |->
                          GetLatest(feeds[c], clock, hours).results])
  IN [n \in 1..Len(found) |->
        [url |-> found[n].url, stamp |-> found[n].published]]

Visited ==
  IF call_args[1].fn = "AnthropicScraper.fetch_articles"
  THEN VisitedArticles(call_args[1].feeds)
  ELSE VisitedLatest(call_args[1].feeds)

\* the list before the final sort, as [url, stamp]
Kept ==
  LET kept == call_result[1].kept
  IN [n \in 1..Len(kept) |->
        [url |-> kept[n].url,
         stamp |-> IF call_args[1].fn = "AnthropicScraper.fetch_articles"
                   THEN kept[n].published_at ELSE kept[n].published]]

\* the entries of the first n of `visited` whose url no earlier entry has
RECURSIVE FirstOccurrences(_, _)
FirstOccurrences(visited, n) ==
  IF n = 0 THEN <<>>
  ELSE FirstOccurrences(visited, n - 1)
         \o (IF \E j \in 1..(n - 1) : visited[j].url = visited[n].url
             THEN <<>> ELSE <<visited[n]>>)

\* C13: before the final sort the merged list holds, for each url, the
\* first visited in-window entry with that url and no later one, in the
\* order of those first occurrences; the returned list is that list sorted.
C13_FirstOccurrenceWins ==
  (call_args # None /\ call_result # None /\ ~call_result[1].raised) =>
    /\ Kept = FirstOccurrences(Visited, Len(Visited))
    /\ Len(call_result[1].results) = Len(Kept)
    /\ \A n \in 1..Len(Kept) :
         \E m \in 1..Len(Kept) : call_result[1].results[m].url = Kept[n].url

\* three in-window entries were visited; the third has the url of the first
\* and a later publish time, and the merged list is the first two
C13_Witness ==
  /\ call_args # None /\ call_result # None
  /\ Len(Visited) = 3
  /\ Visited[3].url = Visited[1].url
  /\ Visited[2].url # Visited[1].url
  /\ StrLess(Visited[1].stamp, Visited[3].stamp)
  /\ Kept = <<Visited[1], Visited[2]>>

\* ------------------------------------------------------------------------
\* _extract_channel_id called on any page (youtube_scraper.py 187-207)
\* ------------------------------------------------------------------------

\* what a pattern captures in a page: nothing, or one of two channel ids
Captures == {None} \cup {Some(id) : id \in ChannelIds}

InitExtract ==
  /\ InitDirect
  /\ \E html \in [meta : Captures, externalId : Captures,
                  canonical : Captures, feedref : Captures,
                  header : Captures] :
       call_args = Some(html)

\* YouTubeScraper._extract_channel_id(html, url)
CallExtractChannelId ==
  /\ call_args # None
  /\ call_result = None
  /\ call_result' = Some(ExtractChannelId(call_args[1]))
  /\ UNCHANGED <<call_args, world, clock, ticks, convEnv, transcriptEnv, pc,
                 runsLeft, runStart, runState, reports>>

SpecExtract == InitExtract /\ [][CallExtractChannelId]_vars

\* the captures of the four strategies in the order of the list
StrategyCaptures(html) ==
  <<html.meta, html.externalId, html.canonical, html.feedref>>

\* C14: the result is the capture of the first strategy, in the order
\* metadata tag, externalId, canonical link, feed reference, that matches
\* the page, and it is None only when none of the four matches.
C14_FirstStrategyWins ==
  call_result # None =>
    LET captures == StrategyCaptures(call_args[1])
        matching == {i \in 1..4 : captures[i] # None}
    IN /\ matching # {} =>
            \E i \in matching :
              /\ \A j \in matching : i <= j
              /\ call_result[1] = captures[i]
       /\ call_result[1] = None => matching = {}

\* the page has no metadata tag; its externalId names one channel, its
\* canonical link and feed reference another, and the first was returned
C14_Witness ==
  /\ call_args # None /\ call_result # None
  /\ call_args[1].meta = None
  /\ call_args[1].externalId = Some(IdA)
  /\ call_args[1].canonical = Some(IdB)
  /\ call_args[1].feedref = Some(IdB)
  /\ call_result[1] = Some(IdA)

\* ------------------------------------------------------------------------
\* Order of enrichment (anthropic_scrapper.py 56-64, runner.py 113-125)
\* ------------------------------------------------------------------------

\* calls is one call for each entry of the final list and no other: as many
\* calls as entries, no key asked twice, every key that of an entry
OncePerEntry(calls, keys) ==
  /\ Len(calls) = Len(keys)
  /\ Distinct(calls)
  /\ SeqToSet(calls) = SeqToSet(keys)

\* C15: in a run that returned a report the enricher was called exactly
\* once for each entry of the final list, each of which passed the window
\* filter and the duplicate check, when enrichment is on, and was not called
\* and left every enrichment field "" when it is off.
C15_EnrichAfterDedup ==
  \A r \in Reports :
    /\ IF fetch_content
       THEN OncePerEntry([n \in 1..Len(contentCalls) |->
                            NormalizeUrl(contentCalls[n])],
                         Urls(r.anthropic.articles))
       ELSE /\ contentCalls = <<>>
            /\ \A n \in 1..Len(r.anthropic.articles) :
                 r.anthropic.articles[n].content = ""
    /\ IF fetch_transcripts
       THEN OncePerEntry(transcriptCalls, VideoKeys(r.youtube.videos))
       ELSE /\ transcriptCalls = <<>>
            /\ \A n \in 1..Len(r.youtube.videos) :
                 r.youtube.videos[n].transcript = ""

\* ------------------------------------------------------------------------
\* Shape of the report (runner.py 73-78, 92, 116-130)
\* ------------------------------------------------------------------------

\* the feed of the channel `handle` resolves to has an entry for video_id
ProducedBy(handle, video_id) ==
  \E id \in ResolvedIds(handle) :
    \E n \in 1..Len(FeedOf(ytFeeds, id)) :
      FeedOf(ytFeeds, id)[n].yt_videoid = video_id

\* C16: in every report each count is the length of its list, hours is the
\* window the Runner was built with, and every video carries as channel a
\* configured handle whose channel feed holds the video, and a transcript
\* that is a text.
C16_ReportWellFormed ==
  \A r \in Reports :
    /\ r.anthropic.count = Len(r.anthropic.articles)
    /\ r.youtube.count = Len(r.youtube.videos)
    /\ r.hours = hours
    /\ \A n \in 1..Len(r.youtube.videos) :
         LET v == r.youtube.videos[n]
         IN /\ v.channel \in SeqToSet(channels)
            /\ ProducedBy(v.channel, v.video_id)
            /\ v.transcript \in {"", "transcript text"}

\* a report with two videos, found under the two configured handles and
\* each tagged with its own
C16_Witness ==
  \E r \in Reports :
    /\ r.youtube.count = 2
    /\ r.youtube.videos[1].channel # r.youtube.videos[2].channel
    /\ {r.youtube.videos[1].channel, r.youtube.videos[2].channel}
         = SeqToSet(channels)

\* ------------------------------------------------------------------------
\* OpenAIScraper (src/scrapers/openai_scrapper.py)
\* ------------------------------------------------------------------------

\* A datetime is aware (has a tzinfo) or naive: datetime.now(timezone.utc)
\* is aware, datetime(*published_parsed[:6]) is naive.
Aware(t) == [t |-> t, aware |-> TRUE]

Naive(t) == [t |-> t, aware |-> FALSE]

\* a >= b on datetimes: TypeError when one is naive and the other aware
DatetimeGeq(a, b) ==
  IF a.aware # b.aware THEN "TypeError"
  ELSE IF DtLeq(b.t, a.t) THEN "true" ELSE "false"

\* OpenAIScraper.fetch_articles(hours): [raised, articles].  The for loop
\* only skips entries without published_parsed; the statements after it run
\* once, on the variables the last iteration left.
OpenAIFetchArticles(entries, now, h) ==
  IF entries = <<>> THEN [raised |-> FALSE, articles |-> <<>>]
  ELSE
    LET cutoff_time == Aware(MinusHours(now, h))
        entry == entries[Len(entries)]
        published_parsed == entry.published_parsed
    IN IF published_parsed = None
       THEN [raised |-> TRUE, articles |-> <<>>]
       ELSE LET published_time == Naive(FromStructTime(published_parsed[1]))
                inside == DatetimeGeq(published_time, cutoff_time)
            IN IF inside = "TypeError"
               THEN [raised |-> TRUE, articles |-> <<>>]
               ELSE IF inside = "true"
               THEN [raised |-> FALSE,
                     articles |-> <<[published_at |-> published_time]>>]
               ELSE [raised |-> FALSE, articles |-> <<>>]

OpenAIEntries ==
  [published_parsed : {None, Some(TOld), Some(TCut), Some(TNow)}]

InitOpenAI ==
  /\ InitDirect
  /\ \E n \in 0..MaxFeedEntries : \E entries \in [1..n -> OpenAIEntries] :
       call_args = Some(entries)

\* OpenAIScraper(feed_url).fetch_articles(hours)
CallOpenAIFetchArticles ==
  /\ call_args # None
  /\ call_result = None
  /\ call_result' = Some(OpenAIFetchArticles(call_args[1], clock, hours))
  /\ UNCHANGED <<call_args, world, clock, ticks, convEnv, transcriptEnv, pc,
                 runsLeft, runStart, runState, reports>>

SpecOpenAI == InitOpenAI /\ [][CallOpenAIFetchArticles]_vars

\* the entries with a publish time at or after now - hours, in feed order
InsideWindow(entries) ==
  SelectSeq(entries,
            LAMBDA e : /\ e.published_parsed # None
                       /\ DtLeq(MinusHours(clock, hours),
                                FromStructTime(e.published_parsed[1])))

\* C17: fetch_articles does not raise and returns one article for each
\* entry published at or after now - hours, skipping the entries without a
\* publish time; for an empty feed it returns [].
C17_EveryEntryTested ==
  call_result # None =>
    /\ ~call_result[1].raised
    /\ Len(call_result[1].articles) = Len(InsideWindow(call_args[1]))
    /\ \A n \in 1..Len(call_result[1].articles) :
         call_result[1].articles[n].published_at.t =
           FromStructTime(InsideWindow(call_args[1])[n].published_parsed[1])

====
